---- MODULE Spec2Model ----
(***************************************************************************)
(* A model of streamlit_app.py: the Snowpark session chosen at startup,    *)
(* the sidebar filters, the five query builders q1..q5 (as query text),    *)
(* the cached run_query / get_meta / load_visual_data functions, the       *)
(* query tab loop, and the relational meaning of the five queries on a     *)
(* small dataset.                                                          *)
(*                                                                         *)
(* Query text is a sequence of string tokens: the SQL fragments the        *)
(* f-strings hold, and the characters of every interpolated value.  The    *)
(* data source parses the values back out of the text it is handed.        *)
(* Dates are records [y, m, d] (datetime.date); prices are in cents and    *)
(* rates in hundredths of a percent, so ROUND(x, 2) is integer rounding.   *)
(***************************************************************************)
EXTENDS Integers, Sequences, FiniteSets, TLC

VARIABLES
    env,             \* what get_active_session() does in this process
    rejects,         \* the tabs whose query the data source rejects (schema, privileges)
    db,              \* the six tables (database and CSV files hold the same rows)
    pc,              \* position of the script run
    runs,            \* script runs started so far
    clock,           \* seconds
    session,         \* the module global `session`
    min_date, max_date, state_options,   \* get_meta()'s result in this run
    date_range,      \* what st.sidebar.date_input returned
    start_date, end_date,
    selected_states, \* what st.sidebar.multiselect returned
    row_limit,       \* what st.sidebar.slider returned
    qi,              \* index into QUERIES of the tab being rendered
    sql,             \* the text builder() returned for that tab
    built,           \* the texts built in this run, by tab
    shown,           \* what each tab presented in this run
    last,            \* the outcome of the latest run_query call
    qcache,          \* st.cache_data of run_query: text -> entry
    meta_cache,      \* st.cache_data of get_meta
    viz_cache,       \* st.cache_data of load_visual_data
    viz,             \* what load_visual_data returned to the visual section
    execs            \* session.sql(...) executions of run_query so far

vars == <<env, rejects, db, pc, runs, clock, session, min_date, max_date, state_options,
          date_range, start_date, end_date, selected_states, row_limit, qi, sql,
          built, shown, last, qcache, meta_cache, viz_cache, viz, execs>>

----------------------------------------------------------------------------
(* Bounds of the model *)

MaxRuns == 2
MaxClock == 300
TickSeconds == 150
MaxLimitSteps == 1
MaxCalls == 4
MaxCacheClock == 600
NumBondsQ1 == 11
VaryBondsQ1 == 3
MaxRatingsPerBond == 3
MaxTradesQ5 == 10
MaxEconRows == 2

(* Program constants *)

RunQueryTtl == 300
MetaTtl == 600
VizTtl == 600
SliderMin == 10
SliderMax == 200
SliderStep == 10
Q2MinQuantity == 100
Q5MinCount == 10
MaxMaturityYears == 40

Null == "NULL"
NullNum == -1
NoDate == [y |-> 0, m |-> 0, d |-> 0]

----------------------------------------------------------------------------
(* Sequences and sets *)

\* the sum of f[x] over x in S
RECURSIVE SumOver(_, _)
SumOver(S, f) ==
    IF S = {} THEN 0
    ELSE LET x == CHOOSE e \in S : TRUE IN f[x] + SumOver(S \ {x}, f)

Range(s) == {s[i] : i \in 1..Len(s)}

NoDup(s) == \A i, j \in 1..Len(s) : i # j => s[i] # s[j]

\* every duplicate-free sequence over the set S
RECURSIVE Arrangements(_)
Arrangements(S) ==
    {<<>>} \cup UNION {{<<x>> \o t : t \in Arrangements(S \ {x})} : x \in S}

Take(s, n) == SubSeq(s, 1, IF n < Len(s) THEN n ELSE Len(s))

RECURSIVE Flatten(_)
Flatten(ss) == IF ss = <<>> THEN <<>> ELSE Head(ss) \o Flatten(Tail(ss))

\* sorted(...) of a set of strings whose order is given by the list `order`
SortedBy(S, order) == SelectSeq(order, LAMBDA x : x \in S)

----------------------------------------------------------------------------
(* Dates: datetime.date compares by (year, month, day) *)

DateLe(a, b) ==
    \/ a.y < b.y
    \/ a.y = b.y /\ a.m < b.m
    \/ a.y = b.y /\ a.m = b.m /\ a.d <= b.d

DateLt(a, b) == DateLe(a, b) /\ a # b

\* DATE_TRUNC('MONTH', x)
DateTruncMonth(a) == [y |-> a.y, m |-> a.m, d |-> 1]

MinDate(S) == CHOOSE a \in S : \A b \in S : DateLe(a, b)
MaxDate(S) == CHOOSE a \in S : \A b \in S : DateLe(b, a)

----------------------------------------------------------------------------
(* Formatting into query text, and the data source reading it back *)

DigitChar == <<"0", "1", "2", "3", "4", "5", "6", "7", "8", "9">>

RECURSIVE IntStr(_)
IntStr(n) ==
    IF n < 10 THEN <<DigitChar[n + 1]>>
    ELSE IntStr(n \div 10) \o <<DigitChar[(n % 10) + 1]>>

RECURSIVE Pad(_, _)
Pad(s, w) == IF Len(s) >= w THEN s ELSE Pad(<<"0">> \o s, w)

\* str(datetime.date): YYYY-MM-DD
DateStr(a) == Pad(IntStr(a.y), 4) \o <<"-">> \o Pad(IntStr(a.m), 2) \o <<"-">> \o Pad(IntStr(a.d), 2)

IsDigit(c) == \E k \in 1..10 : DigitChar[k] = c

DigitVal(c) == (CHOOSE k \in 1..10 : DigitChar[k] = c) - 1

RECURSIVE ParseInt(_)
ParseInt(s) ==
    IF Len(s) = 0 THEN 0
    ELSE 10 * ParseInt(SubSeq(s, 1, Len(s) - 1)) + DigitVal(s[Len(s)])

DateTextLen == 10

IsDateText(s) ==
    /\ Len(s) = DateTextLen
    /\ s[5] = "-" /\ s[8] = "-"
    /\ \A k \in {1, 2, 3, 4, 6, 7, 9, 10} : IsDigit(s[k])

ParseDate(s) ==
    [y |-> ParseInt(SubSeq(s, 1, 4)), m |-> ParseInt(SubSeq(s, 6, 7)), d |-> ParseInt(SubSeq(s, 9, 10))]

\* first position at or after `from` that holds `tok`; Len(s) + 1 when none
RECURSIVE IndexOf(_, _, _)
IndexOf(s, tok, from) ==
    IF from > Len(s) THEN Len(s) + 1
    ELSE IF s[from] = tok THEN from
    ELSE IndexOf(s, tok, from + 1)

----------------------------------------------------------------------------
(* The query builders: build_state_filter and q1..q5 *)

InOpen == " AND i.state_code IN ("
InClose == ")"
Quote == "'"
Comma == ", "
DateAnd == "' AND '"
Semi == ";"

Q1Head == "SELECT b.bond_id, i.name AS issuer_name, i.state_code AS state, COALESCE(p.code, 'UNSPEC') AS purpose_category, ROUND(AVG(t.price), 2) AS avg_trade_price, SUM(t.quantity) AS total_quantity FROM trades t JOIN bonds b ON t.bond_id = b.bond_id JOIN issuers i ON b.issuer_id = i.issuer_id LEFT JOIN bond_purposes p ON b.purpose_id = p.purpose_id WHERE t.trade_date BETWEEN '"
Q1Tail == " GROUP BY b.bond_id, issuer_name, state, purpose_category ORDER BY total_quantity DESC, avg_trade_price DESC LIMIT "
Q2Head == "SELECT i.state_code AS state, COALESCE(p.code, 'UNSPEC') AS purpose_category, COUNT(DISTINCT b.bond_id) AS bonds_traded, SUM(t.quantity) AS total_quantity, ROUND(AVG(t.price), 2) AS avg_trade_price FROM trades t JOIN bonds b ON t.bond_id = b.bond_id JOIN issuers i ON b.issuer_id = i.issuer_id LEFT JOIN bond_purposes p ON b.purpose_id = p.purpose_id WHERE t.trade_date BETWEEN '"
Q2Tail == " GROUP BY state, purpose_category HAVING SUM(t.quantity) >= 100 ORDER BY total_quantity DESC LIMIT "
Q3Head == "WITH ranked AS (SELECT b.bond_id, i.name AS issuer_name, i.state_code AS state, cr.rating_code, cr.rating_date, ROW_NUMBER() OVER (PARTITION BY b.bond_id ORDER BY cr.rating_date DESC) AS rn_desc, ROW_NUMBER() OVER (PARTITION BY b.bond_id ORDER BY cr.rating_date ASC) AS rn_asc FROM bonds b JOIN issuers i ON b.issuer_id = i.issuer_id JOIN credit_ratings cr ON cr.bond_id = b.bond_id WHERE 1=1"
Q3Tail == ") SELECT bond_id, issuer_name, state, MAX(CASE WHEN rn_desc = 1 THEN rating_code END) AS latest_rating, MAX(CASE WHEN rn_asc = 1 THEN rating_code END) AS first_rating, MAX(CASE WHEN rn_desc = 1 THEN rating_date END) AS latest_rating_date FROM ranked GROUP BY bond_id, issuer_name, state HAVING latest_rating <> first_rating LIMIT "
Q4Head == "SELECT TO_CHAR(t.trade_date, 'YYYY-MM') AS trade_month, COUNT(*) AS trades_count, SUM(t.quantity) AS total_quantity, ROUND(AVG(t.price), 2) AS avg_trade_price FROM trades t JOIN bonds b ON t.bond_id = b.bond_id JOIN issuers i ON b.issuer_id = i.issuer_id WHERE t.trade_date BETWEEN '"
Q4Tail == " GROUP BY trade_month ORDER BY trade_month LIMIT "
Q5Head == "WITH ten_yr AS (SELECT geo_code, DATE_TRUNC('MONTH', period_start_date) AS period_month, value AS treasury_10yr FROM economic_indicators WHERE indicator_name = 'TREASURY_10YR') SELECT i.state_code AS state, TO_CHAR(t.trade_date, 'YYYY-MM') AS trade_month, ROUND(AVG(b.coupon_rate), 2) AS avg_coupon_rate, ROUND(AVG(ten_yr.treasury_10yr), 2) AS avg_treasury_10yr, ROUND(AVG(b.coupon_rate - ten_yr.treasury_10yr), 2) AS avg_coupon_spread FROM trades t JOIN bonds b ON t.bond_id = b.bond_id JOIN issuers i ON b.issuer_id = i.issuer_id JOIN ten_yr ON ten_yr.geo_code = i.state_code AND ten_yr.period_month = DATE_TRUNC('MONTH', t.trade_date) WHERE b.coupon_rate IS NOT NULL AND t.trade_date BETWEEN '"
Q5Tail == " GROUP BY state, trade_month HAVING COUNT(*) >= 10 ORDER BY avg_coupon_spread DESC LIMIT "

\* ", ".join(f"'{s}'" for s in states)
RECURSIVE Quoted(_)
Quoted(states) ==
    IF Len(states) = 0 THEN <<>>
    ELSE IF Len(states) = 1 THEN <<Quote, states[1], Quote>>
    ELSE <<Quote, states[1], Quote, Comma>> \o Quoted(Tail(states))

\* a state filter that skips only the full selection
build_state_filter_full_only(states, options) ==
    IF Len(states) = Len(options) THEN <<>>
    ELSE <<InOpen>> \o Quoted(states) \o <<InClose>>

build_state_filter(states, options) ==
    IF Len(states) = 0 \/ Len(states) = Len(options) THEN <<>>
    ELSE <<InOpen>> \o Quoted(states) \o <<InClose>>

DatedQuery(head, tail, states, start, end, limit, options) ==
    <<head>> \o DateStr(start) \o <<DateAnd>> \o DateStr(end) \o <<Quote>>
        \o build_state_filter(states, options) \o <<tail>> \o IntStr(limit) \o <<Semi>>

q1(states, start, end, limit, options) == DatedQuery(Q1Head, Q1Tail, states, start, end, limit, options)

q2(states, start, end, limit, options) == DatedQuery(Q2Head, Q2Tail, states, start, end, limit, options)

q3(states, limit, options) ==
    <<Q3Head>> \o build_state_filter(states, options) \o <<Q3Tail>> \o IntStr(limit) \o <<Semi>>

q4(states, start, end, limit, options) == DatedQuery(Q4Head, Q4Tail, states, start, end, limit, options)

q5(states, start, end, limit, options) == DatedQuery(Q5Head, Q5Tail, states, start, end, limit, options)

NumQueries == 5

\* QUERIES[k]'s builder, closed over the sidebar values
QUERIES(k, states, start, end, limit, options) ==
    CASE k = 1 -> q1(states, start, end, limit, options)
      [] k = 2 -> q2(states, start, end, limit, options)
      [] k = 3 -> q3(states, limit, options)
      [] k = 4 -> q4(states, start, end, limit, options)
      [] OTHER -> q5(states, start, end, limit, options)

----------------------------------------------------------------------------
(* The data source's reading of a query text *)

Heads == <<Q1Head, Q2Head, Q3Head, Q4Head, Q5Head>>
Tails == <<Q1Tail, Q2Tail, Q3Tail, Q4Tail, Q5Tail>>

TextKind(text) == IF Len(text) = 0 THEN 0 ELSE IndexOf(Heads, text[1], 1)

HasDates(text) == TextKind(text) \in {1, 2, 4, 5}

\* where the optional state predicate starts
FilterPos(text) == IF HasDates(text) THEN 2 * DateTextLen + 4 ELSE 2

TextStart(text) == SubSeq(text, 2, DateTextLen + 1)
TextEnd(text) == SubSeq(text, DateTextLen + 3, 2 * DateTextLen + 2)

HasInList(text) == Len(text) >= FilterPos(text) /\ text[FilterPos(text)] = InOpen

\* the tokens between the parentheses of the IN list
InListTokens(text) ==
    IF HasInList(text)
    THEN SubSeq(text, FilterPos(text) + 1, IndexOf(text, InClose, FilterPos(text)) - 1)
    ELSE <<>>

\* the string literals of the IN list
InListStates(text) ==
    LET toks == InListTokens(text)
    IN {toks[k] : k \in {j \in 1..Len(toks) : j % 4 = 2}}

TailPos(text) == IndexOf(text, Tails[TextKind(text)], 2)

TextLimit(text) == ParseInt(SubSeq(text, TailPos(text) + 1, Len(text) - 1))

\* WHERE t.trade_date BETWEEN '{start}' AND '{end}'
InDateRange(text, day) ==
    /\ DateLe(ParseDate(TextStart(text)), day)
    /\ DateLe(day, ParseDate(TextEnd(text)))

\* {state_filter}: i.state_code IN (...), false for a NULL state
StateOk(text, state) ==
    HasInList(text) => (state # Null /\ state \in InListStates(text))

----------------------------------------------------------------------------
(* What the five query texts mean on the tables of a dataset d *)

\* ROUND(total / n, 2) on values held in hundredths: half away from zero
RoundDiv(total, n) ==
    IF total >= 0 THEN (2 * total + n) \div (2 * n)
    ELSE 0 - ((2 * (0 - total) + n) \div (2 * n))

\* TO_CHAR(x, 'YYYY-MM')
ToCharMonth(a) == Pad(IntStr(a.y), 4) \o <<"-">> \o Pad(IntStr(a.m), 2)

\* a > b, for two integer sequences of one length, by the first difference
LexGt(a, b) ==
    \E k \in 1..Len(a) : a[k] > b[k] /\ \A j \in 1..(k - 1) : a[j] = b[j]

\* ORDER BY ... LIMIT n: every sequence of at most n rows of S, without
\* repetition, that puts rows with a greater key first; rows with equal keys
\* come in any order
RECURSIVE OrderLimit(_, _, _)
OrderLimit(S, key, n) ==
    IF S = {} \/ n = 0 THEN {<<>>}
    ELSE LET top == {x \in S : \A z \in S : ~LexGt(key[z], key[x])}
         IN UNION {{<<x>> \o t : t \in OrderLimit(S \ {x}, key, n - 1)} : x \in top}

\* COALESCE(p.code, 'UNSPEC') over LEFT JOIN bond_purposes p
PurposeCodes(d, b) ==
    LET ps == {p \in d.purposes : b.purpose_id # NullNum /\ p.purpose_id = b.purpose_id}
    IN IF ps = {} THEN {"UNSPEC"}
       ELSE {IF p.code = Null THEN "UNSPEC" ELSE p.code : p \in ps}

\* trades t JOIN bonds b JOIN issuers i [LEFT JOIN bond_purposes p] WHERE ...
TradeJoin(text, d) ==
    {j \in UNION {UNION {UNION {{[t |-> t, b |-> b, i |-> i, purpose |-> c] : c \in PurposeCodes(d, b)}
                                : i \in {x \in d.issuers : x.issuer_id = b.issuer_id}}
                         : b \in {x \in d.bonds : x.bond_id = t.bond_id}}
                  : t \in d.trades} :
        /\ InDateRange(text, j.t.trade_date)
        /\ StateOk(text, j.i.state_code)}

SumQuantity(G) == SumOver(G, [j \in G |-> j.t.quantity])
SumPrice(G) == SumOver(G, [j \in G |-> j.t.price])

Q1Rows(text, d) ==
    LET J == TradeJoin(text, d)
        Key(j) == <<j.b.bond_id, j.i.name, j.i.state_code, j.purpose>>
        Row(k) == LET G == {j \in J : Key(j) = k}
                  IN [bond_id |-> k[1], issuer_name |-> k[2], state |-> k[3],
                      purpose_category |-> k[4],
                      avg_trade_price |-> RoundDiv(SumPrice(G), Cardinality(G)),
                      total_quantity |-> SumQuantity(G)]
    IN {Row(k) : k \in {Key(j) : j \in J}}

\* an ordering by total_quantity only
Q1KeyQuantityOnly(rows) == [r \in rows |-> <<r.total_quantity>>]

Q1Key(rows) == [r \in rows |-> <<r.total_quantity, r.avg_trade_price>>]

Q2Rows(text, d) ==
    LET J == TradeJoin(text, d)
        Key(j) == <<j.i.state_code, j.purpose>>
        Row(k) == LET G == {j \in J : Key(j) = k}
                  IN [state |-> k[1], purpose_category |-> k[2],
                      bonds_traded |-> Cardinality({j.b.bond_id : j \in G}),
                      total_quantity |-> SumQuantity(G),
                      avg_trade_price |-> RoundDiv(SumPrice(G), Cardinality(G))]
    IN {r \in {Row(k) : k \in {Key(j) : j \in J}} : r.total_quantity >= Q2MinQuantity}

Q2Key(rows) == [r \in rows |-> <<r.total_quantity>>]

\* bonds b JOIN issuers i JOIN credit_ratings cr WHERE 1=1{state_filter}
Ranked(text, d) ==
    {j \in UNION {UNION {{[b |-> b, i |-> i, cr |-> cr] : cr \in {x \in d.ratings : x.bond_id = b.bond_id}}
                         : i \in {x \in d.issuers : x.issuer_id = b.issuer_id}}
                  : b \in d.bonds} :
        StateOk(text, j.i.state_code)}

Partition(R, bond) == {j \in R : j.b.bond_id = bond}

\* the rows ROW_NUMBER() ... ORDER BY rating_date DESC may number 1
LatestRows(P) == {j \in P : \A k \in P : DateLe(k.cr.rating_date, j.cr.rating_date)}

\* the rows ROW_NUMBER() ... ORDER BY rating_date ASC may number 1
FirstRows(P) == {j \in P : \A k \in P : DateLe(j.cr.rating_date, k.cr.rating_date)}

\* the numberings the two window functions may produce: per bond, the row
\* that gets rn_desc = 1 and the row that gets rn_asc = 1
Numberings(R) ==
    LET bonds == {j.b.bond_id : j \in R}
    IN {f \in [bonds -> R \X R] :
           \A bond \in bonds : /\ f[bond][1] \in LatestRows(Partition(R, bond))
                               /\ f[bond][2] \in FirstRows(Partition(R, bond))}

\* a q3 without its HAVING clause
Q3HavingAny(r) == TRUE

\* HAVING latest_rating <> first_rating: a comparison with NULL is not true
Q3Having(r) ==
    /\ r.latest_rating # Null
    /\ r.first_rating # Null
    /\ r.latest_rating # r.first_rating

\* GROUP BY bond_id, issuer_name, state HAVING ...
Q3RowsOf(R, f) ==
    LET Key(j) == <<j.b.bond_id, j.i.name, j.i.state_code>>
        Row(k) == LET G == {j \in R : Key(j) = k}
                      desc == f[k[1]][1]
                      asc == f[k[1]][2]
                  IN [bond_id |-> k[1], issuer_name |-> k[2], state |-> k[3],
                      latest_rating |-> IF desc \in G THEN desc.cr.rating_code ELSE Null,
                      first_rating |-> IF asc \in G THEN asc.cr.rating_code ELSE Null,
                      latest_rating_date |-> IF desc \in G THEN desc.cr.rating_date ELSE NoDate]
    IN {r \in {Row(k) : k \in {Key(j) : j \in R}} : Q3Having(r)}

\* the row sets Q3 may select, one per numbering
Q3RowSets(text, d) == LET R == Ranked(text, d) IN {Q3RowsOf(R, f) : f \in Numberings(R)}

\* no ORDER BY: every order is allowed
NoKey(rows) == [r \in rows |-> <<>>]

Q4Rows(text, d) ==
    LET J == TradeJoin(text, d)
        \* no purpose join in q4: one row per trade, bond and issuer
        T == {[t |-> j.t, b |-> j.b, i |-> j.i] : j \in J}
        Key(j) == ToCharMonth(j.t.trade_date)
        Row(k) == LET G == {j \in T : Key(j) = k}
                  IN [trade_month |-> k,
                      trades_count |-> Cardinality(G),
                      total_quantity |-> SumQuantity(G),
                      avg_trade_price |-> RoundDiv(SumPrice(G), Cardinality(G))]
    IN {Row(k) : k \in {Key(j) : j \in T}}

\* ascending order of the month strings, character by character
Q4Key(rows) ==
    [r \in rows |-> [k \in 1..Len(r.trade_month) |->
                        IF IsDigit(r.trade_month[k]) THEN 0 - DigitVal(r.trade_month[k]) ELSE 0]]

TenYr(d) == {e \in d.econ : e.indicator_name = "TREASURY_10YR"}

\* trades t JOIN bonds b JOIN issuers i JOIN ten_yr WHERE ...
SpreadJoin(text, d) ==
    {j \in UNION {UNION {UNION {{[t |-> t, b |-> b, i |-> i, e |-> e] :
                                     e \in {x \in TenYr(d) :
                                               /\ i.state_code # Null
                                               /\ x.geo_code = i.state_code
                                               /\ DateTruncMonth(x.period_start_date) = DateTruncMonth(t.trade_date)}}
                                : i \in {x \in d.issuers : x.issuer_id = b.issuer_id}}
                         : b \in {x \in d.bonds : x.bond_id = t.bond_id}}
                  : t \in d.trades} :
        /\ j.b.coupon_rate # NullNum
        /\ InDateRange(text, j.t.trade_date)
        /\ StateOk(text, j.i.state_code)}

Q5Key5(j) == <<j.i.state_code, ToCharMonth(j.t.trade_date)>>

Q5Group(J, k) == {j \in J : Q5Key5(j) = k}

\* HAVING COUNT(*) >= 10
Q5Having(G) == Cardinality(G) >= Q5MinCount

Q5Rows(text, d) ==
    LET J == SpreadJoin(text, d)
        Row(k) == LET G == Q5Group(J, k)
                      n == Cardinality(G)
                  IN [state |-> k[1], trade_month |-> k[2],
                      avg_coupon_rate |-> RoundDiv(SumOver(G, [j \in G |-> j.b.coupon_rate]), n),
                      avg_treasury_10yr |-> RoundDiv(SumOver(G, [j \in G |-> j.e.value]), n),
                      avg_coupon_spread |-> RoundDiv(SumOver(G, [j \in G |-> j.b.coupon_rate - j.e.value]), n)]
    IN {Row(k) : k \in {c \in {Q5Key5(j) : j \in J} : Q5Having(Q5Group(J, c))}}

Q5Key(rows) == [r \in rows |-> <<r.avg_coupon_spread>>]

\* session.sql(text).to_pandas(): the tables the data source may answer with
Execute(text, d) ==
    LET n == TextLimit(text)
    IN CASE TextKind(text) = 1 -> LET rows == Q1Rows(text, d) IN OrderLimit(rows, Q1Key(rows), n)
         [] TextKind(text) = 2 -> LET rows == Q2Rows(text, d) IN OrderLimit(rows, Q2Key(rows), n)
         [] TextKind(text) = 3 -> UNION {OrderLimit(rows, NoKey(rows), n) : rows \in Q3RowSets(text, d)}
         [] TextKind(text) = 4 -> LET rows == Q4Rows(text, d) IN OrderLimit(rows, Q4Key(rows), n)
         [] OTHER -> LET rows == Q5Rows(text, d) IN OrderLimit(rows, Q5Key(rows), n)

----------------------------------------------------------------------------
(* The fallback data layer: load_visual_data and get_meta *)

\* days since 1970-01-01 of a proleptic Gregorian date
DaysFromCivil(a) ==
    LET yy == IF a.m <= 2 THEN a.y - 1 ELSE a.y
        era == yy \div 400
        yoe == yy - era * 400
        mp == IF a.m > 2 THEN a.m - 3 ELSE a.m + 9
        doy == (153 * mp + 2) \div 5 + a.d - 1
        doe == yoe * 365 + yoe \div 4 - yoe \div 100 + doy
    IN era * 146097 + doe - 719468

\* (maturity_date - trade_date).dt.days
DaysBetween(from, to) == DaysFromCivil(to) - DaysFromCivil(from)

\* a range test without the lower bound
TtmAtMost(days) == 100 * days <= MaxMaturityYears * 36525

\* .between(0, 40) of days / 365.25
TtmInRange(days) == 0 <= days /\ 100 * days <= MaxMaturityYears * 36525

\* sort_values(["bond_id", "rating_date"]).groupby("bond_id").tail(1): the
\* rating each bond may end with (rows of one date come in either order)
LatestChoices(d) ==
    LET bonds == {r.bond_id : r \in d.ratings}
        Of(bond) == {r \in d.ratings : r.bond_id = bond}
    IN {f \in [bonds -> d.ratings] :
           \A bond \in bonds :
               /\ f[bond] \in Of(bond)
               /\ \A r \in Of(bond) : DateLe(r.rating_date, f[bond].rating_date)}

\* left merges of one trade: a missing side gives one row of missing values
VisualRowsOf(d, t, latest) ==
    LET bs == {b \in d.bonds : b.bond_id = t.bond_id}
        IssuersOf(b) == {i \in d.issuers : i.issuer_id = b.issuer_id}
        Row(maturity, state, rating) ==
            [trade_id |-> t.trade_id, bond_id |-> t.bond_id, trade_date |-> t.trade_date,
             quantity |-> t.quantity, trade_price |-> t.price,
             maturity_date |-> maturity, state_code |-> state, latest_rating |-> rating,
             ttm_days |-> IF maturity = NoDate THEN NullNum ELSE DaysBetween(t.trade_date, maturity)]
        Rating == IF t.bond_id \in DOMAIN latest THEN latest[t.bond_id].rating_code ELSE Null
    IN IF bs = {} THEN {Row(NoDate, Null, Rating)}
       ELSE UNION {IF IssuersOf(b) = {} THEN {Row(b.maturity_date, Null, Rating)}
                   ELSE {Row(b.maturity_date, i.state_code, Rating) : i \in IssuersOf(b)}
                   : b \in bs}

\* df[df["time_to_maturity_years"].between(0, 40)]
VisualFrame(d, latest) ==
    {r \in UNION {VisualRowsOf(d, t, latest) : t \in d.trades} :
        r.maturity_date # NoDate /\ TtmInRange(r.ttm_days)}

SnowflakeSource == "Snowflake tables (GATOR_DB.MUNI)"
LocalSource == "Local CSVs"

\* the body of load_visual_data: the (df, source) pairs it may return
load_visual_data(sess, d) ==
    {[df |-> VisualFrame(d, latest),
      source |-> IF sess = "Session" THEN SnowflakeSource ELSE LocalSource] :
        latest \in LatestChoices(d)}

StateOrder == <<"CA", "FL", "IL", "NY", "TX">>

\* the body of get_meta: (min_date, max_date, states)
get_meta(sess, d, df) ==
    IF sess = "Session"
    THEN [min_date |-> MinDate({t.trade_date : t \in d.trades}),
          max_date |-> MaxDate({t.trade_date : t \in d.trades}),
          states |-> SortedBy({i.state_code : i \in d.issuers} \ {Null}, StateOrder)]
    ELSE [min_date |-> MinDate({r.trade_date : r \in df}),
          max_date |-> MaxDate({r.trade_date : r \in df}),
          states |-> SortedBy({r.state_code : r \in df} \ {Null}, StateOrder)]

----------------------------------------------------------------------------
(* st.cache_data and run_query *)

\* an entry still served at exactly ttl seconds
FreshInclusive(created, now, ttl) == now - created <= ttl

\* an entry made at `created` is served while fewer than ttl seconds passed
Fresh(created, now, ttl) == now - created < ttl

Hit(cache, text, now) ==
    text \in DOMAIN cache /\ Fresh(cache[text].created, now, RunQueryTtl)

\* run_query answering from the local files when there is no session
RunQueryBodyFallback(text, sess, d, fails) ==
    IF fails /\ sess = "Session"
    THEN {[outcome |-> "QueryExecutionFailed", table |-> <<>>]}
    ELSE {[outcome |-> "rows", table |-> t] : t \in Execute(text, d)}

\* the body of run_query: what one execution may end with; `fails` says
\* whether the data source raises on this execution
RunQueryBody(text, sess, d, fails) ==
    IF sess # "Session"
    THEN {[outcome |-> "RuntimeError", table |-> <<>>]}
    ELSE IF fails
    THEN {[outcome |-> "QueryExecutionFailed", table |-> <<>>]}
    ELSE {[outcome |-> "rows", table |-> t] : t \in Execute(text, d)}

NoCall == [n |-> 0, text |-> <<>>, outcome |-> "none", table |-> <<>>, obj |-> 0, executed |-> FALSE]

\* the expired entries are dropped when the cache is read
Purge(cache, now) ==
    [t \in {x \in DOMAIN cache : Fresh(cache[x].created, now, RunQueryTtl)} |-> cache[t]]

\* run_query(text) under @st.cache_data(ttl=300): sets last, qcache, execs
RunQuery(text, fails) ==
    IF Hit(qcache, text, clock)
    THEN /\ last' = [n |-> last.n + 1, text |-> text, outcome |-> "rows",
                     table |-> qcache[text].table, obj |-> qcache[text].obj,
                     executed |-> FALSE]
         /\ qcache' = Purge(qcache, clock)
         /\ UNCHANGED execs
    ELSE \E r \in RunQueryBody(text, session, db, fails) :
            /\ execs' = IF session = "Session" THEN execs + 1 ELSE execs
            /\ last' = [n |-> last.n + 1, text |-> text, outcome |-> r.outcome,
                        table |-> r.table, obj |-> IF r.outcome = "rows" THEN execs' ELSE 0,
                        executed |-> (session = "Session")]
            /\ qcache' = IF r.outcome = "rows"
                         THEN [t \in DOMAIN Purge(qcache, clock) \cup {text} |->
                                  IF t = text
                                  THEN [created |-> clock, table |-> r.table, obj |-> execs']
                                  ELSE qcache[t]]
                         ELSE Purge(qcache, clock)

----------------------------------------------------------------------------
(* Datasets *)

Day(y, m, d) == [y |-> y, m |-> m, d |-> d]

Issuer(id, name, state) == [issuer_id |-> id, name |-> name, state_code |-> state]

Bond(id, issuer, purpose, coupon, maturity) ==
    [bond_id |-> id, issuer_id |-> issuer, purpose_id |-> purpose, coupon_rate |-> coupon,
     maturity_date |-> maturity]

Trade(id, bond, day, price, quantity) ==
    [trade_id |-> id, bond_id |-> bond, trade_date |-> day, price |-> price, quantity |-> quantity]

Rating(id, bond, code, day) ==
    [rating_id |-> id, bond_id |-> bond, rating_code |-> code, rating_date |-> day]

Indicator(id, name, geo, day, value) ==
    [econ_id |-> id, indicator_name |-> name, geo_code |-> geo, period_start_date |-> day,
     value |-> value]

Jan10 == Day(2023, 1, 10)
Jan20 == Day(2023, 1, 20)
Feb10 == Day(2023, 2, 10)

\* two issuers, two bonds (one without a purpose), three trades on one
\* day, a migrated bond and a bond with one rating
FlowDb ==
    [issuers |-> {Issuer(1, "City A", "CA"), Issuer(2, "City B", "NY")},
     bonds |-> {Bond(1, 1, 1, 500, Day(2030, 1, 1)), Bond(2, 2, NullNum, 400, Day(2043, 1, 20))},
     purposes |-> {[purpose_id |-> 1, code |-> "EDU"]},
     trades |-> {Trade(1, 1, Jan20, 9950, 100), Trade(2, 1, Jan20, 10050, 50),
                 Trade(3, 2, Jan20, 10000, 120)},
     ratings |-> {Rating(1, 1, "A", Day(2020, 1, 1)), Rating(2, 1, "BBB", Day(2023, 6, 1)),
                  Rating(3, 2, "AA", Day(2021, 1, 1))},
     econ |-> {Indicator(1, "TREASURY_10YR", "CA", Day(2023, 1, 1), 350),
               Indicator(2, "TREASURY_10YR", "NY", Day(2023, 1, 1), 360)}]

FlowDbs == {FlowDb}

\* three states and an issuer without a state; trades on three days
WideDb ==
    [issuers |-> {Issuer(1, "City A", "CA"), Issuer(2, "City B", "NY"),
                  Issuer(3, "City C", "TX"), Issuer(4, "Agency D", Null)},
     bonds |-> {Bond(1, 1, 1, 500, Day(2030, 1, 1)), Bond(2, 2, NullNum, 400, Day(2043, 1, 20)),
                Bond(3, 3, 2, NullNum, Day(2035, 6, 1)), Bond(4, 4, 1, 450, Day(2028, 6, 1))},
     purposes |-> {[purpose_id |-> 1, code |-> "EDU"], [purpose_id |-> 2, code |-> Null]},
     trades |-> {Trade(1, 1, Jan10, 9950, 100), Trade(2, 1, Feb10, 10050, 50),
                 Trade(3, 2, Jan20, 10000, 120), Trade(4, 3, Jan20, 10100, 80),
                 Trade(5, 4, Feb10, 9900, 40)},
     ratings |-> {Rating(1, 1, "A", Day(2020, 1, 1)), Rating(2, 1, "BBB", Day(2023, 6, 1)),
                  Rating(3, 2, "AA", Day(2021, 1, 1)), Rating(4, 3, "A", Day(2021, 1, 1)),
                  Rating(5, 3, "AA", Day(2021, 1, 1))},
     econ |-> {Indicator(1, "TREASURY_10YR", "CA", Day(2023, 1, 1), 350),
               Indicator(2, "TREASURY_10YR", "NY", Day(2023, 1, 1), 360),
               Indicator(3, "CPI", "CA", Day(2023, 1, 1), 300)}]

\* the dates the date picker offers between min_value and max_value
PickerDates == {Jan10, Jan20, Feb10}

----------------------------------------------------------------------------
(* The script *)

NotShown == [kind |-> "none", table |-> <<>>, exc |-> "none"]
NoMeta == [valid |-> FALSE, created |-> 0, min_date |-> NoDate, max_date |-> NoDate, states |-> <<>>]
NoViz == [valid |-> FALSE, created |-> 0, df |-> {}, source |-> ""]

Envs == {"ImportError", "SnowparkSessionException", "Exception", "active"}

\* a script run starts from fresh module globals; the caches outlive it
FreshRun ==
    /\ pc = "startup"
    /\ session = "None"
    /\ min_date = NoDate /\ max_date = NoDate /\ state_options = <<>>
    /\ date_range = <<>> /\ start_date = NoDate /\ end_date = NoDate
    /\ selected_states = <<>> /\ row_limit = 0
    /\ qi = 0 /\ sql = <<>>
    /\ built = [k \in 1..NumQueries |-> <<>>]
    /\ shown = [k \in 1..NumQueries |-> NotShown]
    /\ viz = NoViz

\* the data source rejects no query, some of them, or all of them
RejectSets == {{}, {2, 5}, 1..NumQueries}

Init ==
    /\ env \in Envs
    /\ rejects \in IF env = "active" THEN RejectSets ELSE {{}}
    /\ db \in FlowDbs
    /\ runs = 1
    /\ clock = 0
    /\ FreshRun
    /\ last = NoCall
    /\ qcache = <<>>
    /\ meta_cache = NoMeta
    /\ viz_cache = NoViz
    /\ execs = 0

\* lines 17-24: session = get_active_session(), None on any failure
StartupSession(e) == IF e = "active" THEN "Session" ELSE "None"

Startup ==
    /\ pc = "startup"
    /\ session' = StartupSession(env)
    /\ pc' = "get_meta"
    /\ UNCHANGED <<env, rejects, db, runs, clock, min_date, max_date, state_options, date_range,
                   start_date, end_date, selected_states, row_limit, qi, sql, built, shown,
                   last, qcache, meta_cache, viz_cache, viz, execs>>

\* load_visual_data() under @st.cache_data(ttl=600): the value returned and the cache after
CachedViz ==
    IF viz_cache.valid /\ Fresh(viz_cache.created, clock, VizTtl)
    THEN {viz_cache}
    ELSE {[valid |-> TRUE, created |-> clock, df |-> v.df, source |-> v.source] :
             v \in load_visual_data(session, db)}

\* line 147: min_date, max_date, state_options = get_meta(), cached for 600 s
GetMeta ==
    /\ pc = "get_meta"
    /\ IF meta_cache.valid /\ Fresh(meta_cache.created, clock, MetaTtl)
       THEN /\ UNCHANGED <<meta_cache, viz_cache>>
            /\ min_date' = meta_cache.min_date
            /\ max_date' = meta_cache.max_date
            /\ state_options' = meta_cache.states
       ELSE \E v \in CachedViz :
               LET m == get_meta(session, db, v.df)
               IN /\ viz_cache' = IF session = "Session" THEN viz_cache ELSE v
                  /\ meta_cache' = [valid |-> TRUE, created |-> clock, min_date |-> m.min_date,
                                    max_date |-> m.max_date, states |-> m.states]
                  /\ min_date' = m.min_date
                  /\ max_date' = m.max_date
                  /\ state_options' = m.states
    /\ pc' = "date_input"
    /\ UNCHANGED <<env, rejects, db, runs, clock, session, date_range, start_date, end_date,
                   selected_states, row_limit, qi, sql, built, shown, last, qcache, viz, execs>>

\* what st.sidebar.date_input may return for a range: 0, 1 or 2 dates, each
\* between min_value and max_value, a pair in order
DateInputValues(lo, hi) ==
    LET ds == {a \in PickerDates : DateLe(lo, a) /\ DateLe(a, hi)}
    IN {<<>>} \cup {<<a>> : a \in ds} \cup {p \in ds \X ds : DateLe(p[1], p[2])}

\* a lone date taken as a one-day range
IsPairOrSingle(value) == Len(value) >= 1

\* lines 156-159: exactly two bounds, or st.stop()
IsPair(value) == Len(value) = 2

DateInput ==
    /\ pc = "date_input"
    /\ \E value \in DateInputValues(min_date, max_date) :
          /\ date_range' = value
          /\ IF IsPair(value)
             THEN /\ start_date' = Head(value)
                  /\ end_date' = value[Len(value)]
                  /\ pc' = "multiselect"
             ELSE /\ UNCHANGED <<start_date, end_date>>
                  /\ pc' = "stopped"
    /\ UNCHANGED <<env, rejects, db, runs, clock, session, min_date, max_date, state_options,
                   selected_states, row_limit, qi, sql, built, shown, last, qcache,
                   meta_cache, viz_cache, viz, execs>>

\* a state input that also takes typed text
MultiselectFreeText(options) == Arrangements(Range(options) \cup {"ZZ"})

\* what st.sidebar.multiselect may return: options, each at most once, in
\* the order they were picked
MultiselectValues(options) == Arrangements(Range(options))

Multiselect ==
    /\ pc = "multiselect"
    /\ selected_states' \in MultiselectValues(state_options)
    /\ pc' = "slider"
    /\ UNCHANGED <<env, rejects, db, runs, clock, session, min_date, max_date, state_options,
                   date_range, start_date, end_date, row_limit, qi, sql, built, shown, last,
                   qcache, meta_cache, viz_cache, viz, execs>>

\* line 173: st.sidebar.slider(min_value=10, max_value=200, step=10)
SliderValues ==
    {v \in {SliderMin + SliderStep * k : k \in 0..(MaxLimitSteps - 1)} : v <= SliderMax}

Slider ==
    /\ pc = "slider"
    /\ row_limit' \in SliderValues
    /\ pc' = "tabs"
    /\ UNCHANGED <<env, rejects, db, runs, clock, session, min_date, max_date, state_options,
                   date_range, start_date, end_date, selected_states, qi, sql, built, shown,
                   last, qcache, meta_cache, viz_cache, viz, execs>>

\* query tabs shown whether or not there is a session
TabsAlways(sess) == TRUE

\* line 314: the query tabs are rendered only with a session
TabsEnabled(sess) == sess = "Session"

Tabs ==
    /\ pc = "tabs"
    /\ IF TabsEnabled(session)
       THEN qi' = 1 /\ pc' = "build"
       ELSE qi' = 0 /\ pc' = "visual"
    /\ UNCHANGED <<env, rejects, db, runs, clock, session, min_date, max_date, state_options,
                   date_range, start_date, end_date, selected_states, row_limit, sql, built,
                   shown, last, qcache, meta_cache, viz_cache, viz, execs>>

\* line 328: sql = builder()
Build ==
    /\ pc = "build"
    /\ sql' = QUERIES(qi, selected_states, start_date, end_date, row_limit, state_options)
    /\ built' = [built EXCEPT ![qi] = sql']
    /\ pc' = "run"
    /\ UNCHANGED <<env, rejects, db, runs, clock, session, min_date, max_date, state_options,
                   date_range, start_date, end_date, selected_states, row_limit, qi, shown,
                   last, qcache, meta_cache, viz_cache, viz, execs>>

\* lines 330-335 and 456-458: what the tab presents for an outcome of run_query
Present(call) ==
    IF call.outcome = "rows"
    THEN [kind |-> IF call.table = <<>> THEN "empty" ELSE "table", table |-> call.table,
          exc |-> "none"]
    ELSE [kind |-> "error", table |-> <<>>, exc |-> call.outcome]

\* a tab loop that ends at the first query that fails
RunTabAbort ==
    /\ pc = "run"
    /\ RunQuery(sql, qi \in rejects)
    /\ shown' = [shown EXCEPT ![qi] = Present(last')]
    /\ IF qi < NumQueries /\ last'.outcome = "rows"
       THEN qi' = qi + 1 /\ pc' = "build"
       ELSE qi' = qi /\ pc' = "visual"
    /\ UNCHANGED <<env, rejects, db, runs, clock, session, min_date, max_date, state_options,
                   date_range, start_date, end_date, selected_states, row_limit, sql, built,
                   meta_cache, viz_cache, viz>>

\* a tab that runs its query a second time when the first run fails
RunTabRetry ==
    /\ pc = "run"
    /\ RunQuery(sql, qi \in rejects)
    /\ shown' = [shown EXCEPT ![qi] = Present(last')]
    /\ IF last'.outcome # "rows" /\ last.n < qi
       THEN qi' = qi /\ pc' = "run"
       ELSE IF qi < NumQueries
       THEN qi' = qi + 1 /\ pc' = "build"
       ELSE qi' = qi /\ pc' = "visual"
    /\ UNCHANGED <<env, rejects, db, runs, clock, session, min_date, max_date, state_options,
                   date_range, start_date, end_date, selected_states, row_limit, sql, built,
                   meta_cache, viz_cache, viz>>

\* a tab that drops the session when its query fails
RunTabFailover ==
    /\ pc = "run"
    /\ RunQuery(sql, qi \in rejects)
    /\ shown' = [shown EXCEPT ![qi] = Present(last')]
    /\ session' = IF last'.outcome = "rows" THEN session ELSE "None"
    /\ IF qi < NumQueries
       THEN qi' = qi + 1 /\ pc' = "build"
       ELSE qi' = qi /\ pc' = "visual"
    /\ UNCHANGED <<env, rejects, db, runs, clock, min_date, max_date, state_options,
                   date_range, start_date, end_date, selected_states, row_limit, sql, built,
                   meta_cache, viz_cache, viz>>

RunTab ==
    /\ pc = "run"
    /\ RunQuery(sql, qi \in rejects)
    /\ shown' = [shown EXCEPT ![qi] = Present(last')]
    /\ IF qi < NumQueries
       THEN qi' = qi + 1 /\ pc' = "build"
       ELSE qi' = qi /\ pc' = "visual"
    /\ UNCHANGED <<env, rejects, db, runs, clock, session, min_date, max_date, state_options,
                   date_range, start_date, end_date, selected_states, row_limit, sql, built,
                   meta_cache, viz_cache, viz>>

\* line 463: viz_df, econ_df, purposes_df, source_label = load_visual_data()
Visual ==
    /\ pc = "visual"
    /\ \E v \in CachedViz :
          /\ viz_cache' = v
          /\ viz' = v
    /\ pc' = "done"
    /\ UNCHANGED <<env, rejects, db, runs, clock, session, min_date, max_date, state_options,
                   date_range, start_date, end_date, selected_states, row_limit, qi, sql,
                   built, shown, last, qcache, meta_cache, execs>>

\* a widget interaction reruns the script from the top
Rerun ==
    /\ pc \in {"done", "stopped"}
    /\ runs < MaxRuns
    /\ runs' = runs + 1
    /\ pc' = "startup"
    /\ session' = "None"
    /\ min_date' = NoDate /\ max_date' = NoDate /\ state_options' = <<>>
    /\ date_range' = <<>> /\ start_date' = NoDate /\ end_date' = NoDate
    /\ selected_states' = <<>> /\ row_limit' = 0
    /\ qi' = 0 /\ sql' = <<>>
    /\ built' = [k \in 1..NumQueries |-> <<>>]
    /\ shown' = [k \in 1..NumQueries |-> NotShown]
    /\ viz' = NoViz
    /\ last' = NoCall
    /\ UNCHANGED <<env, rejects, db, clock, qcache, meta_cache, viz_cache, execs>>

\* time passes between two script runs; a run reads one clock value
Tick ==
    /\ pc \in {"done", "stopped"}
    /\ clock + TickSeconds <= MaxClock
    /\ clock' = clock + TickSeconds
    /\ UNCHANGED <<env, rejects, db, pc, runs, session, min_date, max_date, state_options, date_range,
                   start_date, end_date, selected_states, row_limit, qi, sql, built, shown,
                   last, qcache, meta_cache, viz_cache, viz, execs>>

Next ==
    \/ Startup
    \/ GetMeta
    \/ DateInput
    \/ Multiselect
    \/ Slider
    \/ Tabs
    \/ Build
    \/ RunTab
    \/ Visual
    \/ Rerun
    \/ Tick

Spec == Init /\ [][Next]_vars

----------------------------------------------------------------------------
(* One script run on a wider dataset *)

InitRun ==
    /\ env \in Envs
    /\ rejects \in IF env = "active" THEN RejectSets ELSE {{}}
    /\ db = WideDb
    /\ runs = 1
    /\ clock = 0
    /\ FreshRun
    /\ last = NoCall
    /\ qcache = <<>>
    /\ meta_cache = NoMeta
    /\ viz_cache = NoViz
    /\ execs = 0

NextRun ==
    \/ Startup
    \/ GetMeta
    \/ DateInput
    \/ Multiselect
    \/ Slider
    \/ Tabs
    \/ Build
    \/ RunTab
    \/ Visual

SpecRun == InitRun /\ [][NextRun]_vars

----------------------------------------------------------------------------
(* run_query called directly, any number of times, as the clock advances *)

CallTexts ==
    {q1(<<>>, Jan20, Feb10, SliderMin, <<"CA", "NY">>),
     q3(<<"CA">>, SliderMin, <<"CA", "NY">>),
     q5(<<>>, Jan20, Feb10, SliderMin, <<"CA", "NY">>)}

InitCache ==
    /\ env \in Envs
    /\ rejects = {}
    /\ db = FlowDb
    /\ runs = 1
    /\ clock = 0
    /\ FreshRun
    /\ last = NoCall
    /\ qcache = <<>>
    /\ meta_cache = NoMeta
    /\ viz_cache = NoViz
    /\ execs = 0

\* run_query exists once line 86 has run, after the startup block
Call ==
    /\ pc # "startup"
    /\ last.n < MaxCalls
    /\ \E text \in CallTexts, fails \in BOOLEAN : RunQuery(text, fails)
    /\ UNCHANGED <<env, rejects, db, pc, runs, clock, session, min_date, max_date,
                   state_options, date_range, start_date, end_date, selected_states,
                   row_limit, qi, sql, built, shown, meta_cache, viz_cache, viz>>

Advance ==
    /\ clock + TickSeconds <= MaxCacheClock
    /\ clock' = clock + TickSeconds
    /\ UNCHANGED <<env, rejects, db, pc, runs, session, min_date, max_date, state_options,
                   date_range, start_date, end_date, selected_states, row_limit, qi, sql,
                   built, shown, last, qcache, meta_cache, viz_cache, viz, execs>>

NextCache ==
    \/ Startup
    \/ Call
    \/ Advance

SpecCache == InitCache /\ [][NextCache]_vars

----------------------------------------------------------------------------
(* The tab loop on families of datasets, from the tab of one query on *)

TwoIssuers == {Issuer(1, "City A", "CA"), Issuer(2, "City B", "NY")}

\* bond b trades 10 * b on Jan 10; by its pattern it trades 10 more on
\* Feb 10, at a price that rounds the mean up (1) or gives the mean and the
\* total of bond b + 1 (2)
Q1Trades(b, pattern) ==
    IF pattern = 0 THEN {Trade(2 * b - 1, b, Jan10, 10000, 10 * b)}
    ELSE {Trade(2 * b - 1, b, Jan10, 9950, 10 * b),
          Trade(2 * b, b, Feb10, IF pattern = 1 THEN 10051 ELSE 10050, 10)}

Q1Db(patterns) ==
    [issuers |-> TwoIssuers,
     bonds |-> {Bond(b, 1 + (b % 2), NullNum, 500, Day(2030, 1, 1)) : b \in 1..NumBondsQ1},
     purposes |-> {},
     trades |-> UNION {Q1Trades(b, IF b <= VaryBondsQ1 THEN patterns[b] ELSE 0) : b \in 1..NumBondsQ1},
     ratings |-> {},
     econ |-> {}]

Q1Dbs == {Q1Db(patterns) : patterns \in [1..VaryBondsQ1 -> 0..2]}

RatingChoices ==
    {Rating(1, 0, "A", Day(2020, 1, 1)), Rating(2, 0, "BBB", Day(2020, 1, 1)),
     Rating(3, 0, "A", Day(2023, 6, 1)), Rating(4, 0, "BBB", Day(2023, 6, 1))}

RatingsOf(b, rs) == {Rating(10 * b + r.rating_id, b, r.rating_code, r.rating_date) : r \in rs}

Q3Db(rs1, rs2) ==
    [issuers |-> TwoIssuers,
     bonds |-> {Bond(1, 1, NullNum, 500, Day(2030, 1, 1)), Bond(2, 2, NullNum, 400, Day(2030, 1, 1))},
     purposes |-> {},
     trades |-> {Trade(1, 1, Jan10, 10000, 100)},
     ratings |-> RatingsOf(1, rs1) \cup RatingsOf(2, rs2),
     econ |-> {}]

Q3Dbs ==
    LET sets == {rs \in SUBSET RatingChoices : Cardinality(rs) <= MaxRatingsPerBond}
    IN {Q3Db(rs1, rs2) : rs1 \in sets, rs2 \in sets}

\* n1 trades of a California bond and n2 of a New York bond in January,
\* and k TREASURY_10YR rows for California in that month
Q5Db(n1, n2, k) ==
    [issuers |-> TwoIssuers,
     bonds |-> {Bond(1, 1, NullNum, 500, Day(2030, 1, 1)), Bond(2, 2, NullNum, 400, Day(2030, 1, 1))},
     purposes |-> {},
     trades |-> {Trade(t, 1, Jan10, 10000, 10) : t \in 1..n1}
                    \cup {Trade(100 + t, 2, Jan20, 10000, 10) : t \in 1..n2},
     ratings |-> {},
     econ |-> {Indicator(e, "TREASURY_10YR", "CA", Day(2023, 1, 1 + 14 * (e - 1)), 350 + 20 * (e - 1)) : e \in 1..k}
                  \cup {Indicator(100, "TREASURY_10YR", "NY", Day(2023, 1, 1), 360)}]

Q5Dbs ==
    {Q5Db(n1, n2, k) : n1 \in 1..MaxTradesQ5, n2 \in {0, MaxTradesQ5}, k \in 0..MaxEconRows}

\* the script at the top of tab `first` of a live run on dataset d
AtTab(first, d) ==
    LET m == get_meta("Session", d, {})
    IN /\ env = "active"
       /\ rejects = {}
       /\ db = d
       /\ runs = 1
       /\ clock = 0
       /\ pc = "build"
       /\ session = "Session"
       /\ min_date = m.min_date /\ max_date = m.max_date /\ state_options = m.states
       /\ date_range \in {v \in DateInputValues(m.min_date, m.max_date) : IsPair(v)}
       /\ start_date = date_range[1] /\ end_date = date_range[2]
       /\ selected_states \in MultiselectValues(m.states)
       /\ row_limit \in SliderValues
       /\ qi = first
       /\ sql = <<>>
       /\ built = [k \in 1..NumQueries |-> <<>>]
       /\ shown = [k \in 1..NumQueries |-> NotShown]
       /\ viz = NoViz
       /\ last = NoCall
       /\ qcache = <<>>
       /\ meta_cache = [valid |-> TRUE, created |-> 0, min_date |-> m.min_date,
                        max_date |-> m.max_date, states |-> m.states]
       /\ viz_cache = NoViz
       /\ execs = 0

InitQuery ==
    \/ \E d \in Q1Dbs : AtTab(1, d)
    \/ \E d \in Q3Dbs : AtTab(3, d)
    \/ \E d \in Q5Dbs : AtTab(5, d)

NextQuery ==
    \/ Build
    \/ RunTab

SpecQuery == InitQuery /\ [][NextQuery]_vars

\* the flow dataset with a second rating of bond 1 on its earliest date:
\* A and BBB on 2020-01-01, then BBB on 2023-06-01
TieDb ==
    [FlowDb EXCEPT !.ratings = @ \cup {Rating(4, 1, "BBB", Day(2020, 1, 1))}]

\* run_query called repeatedly on the dataset with tied rating dates
InitTies ==
    /\ env = "active"
    /\ rejects = {}
    /\ db = TieDb
    /\ runs = 1
    /\ clock = 0
    /\ FreshRun
    /\ last = NoCall
    /\ qcache = <<>>
    /\ meta_cache = NoMeta
    /\ viz_cache = NoViz
    /\ execs = 0

SpecTies == InitTies /\ [][NextCache]_vars

\* maturities around the two ends of the range for a trade of 2023-01-20:
\* none, the day before, the day itself, 40 years on, and a day later
MaturityChoices ==
    {NoDate, Day(2023, 1, 19), Jan20, Day(2063, 1, 20), Day(2063, 1, 21)}

\* the flow dataset with bond 2 maturing on `maturity`, and a trade of a
\* bond that is not in bonds
VizDb(maturity) ==
    [FlowDb EXCEPT !.bonds = {Bond(1, 1, 1, 500, Day(2030, 1, 1)),
                              Bond(2, 2, NullNum, 400, maturity)},
                   !.trades = @ \cup {Trade(4, 9, Jan20, 10000, 10)}]

VizDbs == {VizDb(maturity) : maturity \in MaturityChoices}

\* one script run on the datasets with maturities at the ends of the range
InitViz ==
    /\ env \in Envs
    /\ rejects = {}
    /\ db \in VizDbs
    /\ runs = 1
    /\ clock = 0
    /\ FreshRun
    /\ last = NoCall
    /\ qcache = <<>>
    /\ meta_cache = NoMeta
    /\ viz_cache = NoViz
    /\ execs = 0

SpecViz == InitViz /\ [][NextRun]_vars

\* one script run with a live session in which the data source rejects
\* any subset of the five queries
InitFail ==
    /\ env = "active"
    /\ rejects \in SUBSET (1..NumQueries)
    /\ db = FlowDb
    /\ runs = 1
    /\ clock = 0
    /\ FreshRun
    /\ last = NoCall
    /\ qcache = <<>>
    /\ meta_cache = NoMeta
    /\ viz_cache = NoViz
    /\ execs = 0

SpecFail == InitFail /\ [][NextRun]_vars

----------------------------------------------------------------------------
(* Properties *)

AnyShown == \E k \in 1..NumQueries : shown[k] # NotShown
AnyBuilt == \E k \in 1..NumQueries : built[k] # <<>>

\* C1: a run_query call made while no live session exists raises the
\* RuntimeError of the data source being unavailable; it returns no table,
\* executes nothing and leaves nothing in the cache, whatever the text.
C1_NoSessionRaises ==
    (session = "None" /\ last.n > 0) =>
        /\ last.outcome = "RuntimeError"
        /\ last.table = <<>>
        /\ ~last.executed
        /\ qcache = <<>>
        /\ execs = 0

C1_Witness ==
    /\ session = "None"
    /\ pc # "startup"
    /\ last.n >= 2
    /\ last.outcome = "RuntimeError"
    /\ clock >= RunQueryTtl

\* C2: once the startup block has assigned session, no later step of the
\* run (get_meta, the widgets, a builder, run_query, load_visual_data)
\* changes it.
C2_SessionFixedAfterStartup ==
    [][(pc # "startup" /\ pc' # "startup") => session' = session]_vars

C2_Witness ==
    /\ runs = 2
    /\ pc = "done"
    /\ session = "Session"
    /\ last.n = NumQueries
    /\ \E k \in 1..NumQueries : shown[k].kind = "error"
    /\ \E k \in 1..NumQueries : shown[k].kind = "table"

\* C3: when the date input is not a pair of two bounds the run stops at
\* the date input: no builder is called, no query runs, nothing is shown;
\* every text that is built carries the two picked bounds as dates.
C3_UnpairedDateStops ==
    /\ (pc \notin {"startup", "get_meta", "date_input"} /\ Len(date_range) # 2) =>
           /\ pc = "stopped"
           /\ ~AnyBuilt
           /\ ~AnyShown
           /\ last.n = 0
           /\ execs = 0
    /\ \A k \in 1..NumQueries :
           (built[k] # <<>> /\ HasDates(built[k])) =>
               /\ Len(date_range) = 2
               /\ IsDateText(TextStart(built[k]))
               /\ IsDateText(TextEnd(built[k]))
               /\ ParseDate(TextStart(built[k])) = date_range[1]
               /\ ParseDate(TextEnd(built[k])) = date_range[2]

C3_Witness ==
    /\ pc = "stopped"
    /\ Len(date_range) = 1
    /\ session = "Session"

\* the state-filter fragment of a built text
FilterTokens(text) == SubSeq(text, FilterPos(text), TailPos(text) - 1)

\* C4: a built text carries no state filter exactly when the selection is
\* empty or is the whole of state_options; otherwise the filter is the IN
\* list of exactly the selected states.  The code's equal-length test
\* agrees with equality of the two sets.
C4_FilterOnlyForProperSubset ==
    \A k \in 1..NumQueries :
        built[k] # <<>> =>
            LET f == FilterTokens(built[k])
                sel == Range(selected_states)
                all == Range(state_options)
            IN /\ (f = <<>>) <=> (sel = {} \/ sel = all)
               /\ (Len(selected_states) = Len(state_options)) <=> (sel = all)
               /\ f # <<>> =>
                      /\ f = <<InOpen>> \o Quoted(selected_states) \o <<InClose>>
                      /\ InListStates(built[k]) = sel
                      /\ Len(InListTokens(built[k])) = 4 * Cardinality(sel) - 1

C4_Witness ==
    /\ pc = "done"
    /\ Len(state_options) = 3
    /\ Len(selected_states) = 2
    /\ \A k \in 1..NumQueries : InListStates(built[k]) = Range(selected_states)

\* C10: every state literal in a built text is one of state_options, which
\* are the state codes of the issuers table, and both date literals are
\* well-formed YYYY-MM-DD texts of dates offered by the date input, within
\* [min_date, max_date].
C10_InterpolatedValuesChecked ==
    \A k \in 1..NumQueries :
        built[k] # <<>> =>
            /\ HasInList(built[k]) => InListStates(built[k]) \subseteq Range(state_options)
            /\ Range(state_options) \subseteq {i.state_code : i \in db.issuers}
            /\ HasDates(built[k]) =>
                   /\ IsDateText(TextStart(built[k]))
                   /\ IsDateText(TextEnd(built[k]))
                   /\ ParseDate(TextStart(built[k])) \in PickerDates
                   /\ ParseDate(TextEnd(built[k])) \in PickerDates
                   /\ DateLe(min_date, ParseDate(TextStart(built[k])))
                   /\ DateLe(ParseDate(TextStart(built[k])), ParseDate(TextEnd(built[k])))
                   /\ DateLe(ParseDate(TextEnd(built[k])), max_date)

C10_Witness ==
    /\ pc = "done"
    /\ HasInList(built[5])
    /\ HasInList(built[3])
    /\ DateLt(ParseDate(TextStart(built[5])), ParseDate(TextEnd(built[5])))
    /\ DateLt(min_date, ParseDate(TextStart(built[5])))

\* C9: a run_query call whose text has a cache entry younger than 300 s
\* returns that entry's table and object without executing and leaves the
\* entry as it is; any other call with a live session executes the query,
\* and when it succeeds returns a newly computed object and stores it with
\* the current time.
C9_CachedWithinWindow ==
    [][last'.n = last.n + 1 =>
          LET t == last'.text
          IN IF t \in DOMAIN qcache /\ clock - qcache[t].created < RunQueryTtl
             THEN /\ last'.outcome = "rows"
                  /\ last'.table = qcache[t].table
                  /\ last'.obj = qcache[t].obj
                  /\ ~last'.executed
                  /\ execs' = execs
                  /\ t \in DOMAIN qcache'
                  /\ qcache'[t] = qcache[t]
             ELSE session = "Session" =>
                      /\ last'.executed
                      /\ execs' = execs + 1
                      /\ last'.outcome = "rows" =>
                             /\ last'.obj = execs'
                             /\ last'.table \in Execute(t, db)
                             /\ t \in DOMAIN qcache'
                             /\ qcache'[t] = [created |-> clock, table |-> last'.table,
                                              obj |-> last'.obj]]_vars

C9_Witness ==
    /\ session = "Session"
    /\ last.n = MaxCalls
    /\ last.outcome = "rows"
    /\ ~last.executed
    /\ execs = 2
    /\ DOMAIN qcache = {last.text}
    /\ qcache[last.text].created = RunQueryTtl
    /\ qcache[last.text].obj = 2
    /\ clock > RunQueryTtl

Shown(k) == {shown[k].table[n] : n \in 1..Len(shown[k].table)}

\* the ratings of a bond in the dataset, and its earliest and latest codes
RatingsOfBond(bond) == {x \in db.ratings : x.bond_id = bond}
EarliestCodes(bond) ==
    {x.rating_code : x \in {y \in RatingsOfBond(bond) :
                               \A z \in RatingsOfBond(bond) : DateLe(y.rating_date, z.rating_date)}}
LatestCodes(bond) ==
    {x.rating_code : x \in {y \in RatingsOfBond(bond) :
                               \A z \in RatingsOfBond(bond) : DateLe(z.rating_date, y.rating_date)}}

\* C5: every row Q3 presents names a bond once, with a first_rating that
\* is the code of one of its earliest-dated ratings and a latest_rating
\* that is the code of one of its latest-dated ratings, the two codes
\* differ, and the bond has at least two ratings; this holds for every
\* numbering the two ROW_NUMBER() windows may assign.
C5_Q3OnlyChangedRatings ==
    shown[3].kind = "table" =>
        /\ \A r \in Shown(3) :
               /\ r.latest_rating # r.first_rating
               /\ Cardinality(RatingsOfBond(r.bond_id)) >= 2
               /\ r.first_rating \in EarliestCodes(r.bond_id)
               /\ r.latest_rating \in LatestCodes(r.bond_id)
        /\ Cardinality({r.bond_id : r \in Shown(3)}) = Len(shown[3].table)

C5_Witness ==
    /\ shown[3].kind = "table"
    /\ \E r \in Shown(3) : Cardinality(EarliestCodes(r.bond_id)) = 2
    /\ \E r \in Shown(3) : r.first_rating = "A" /\ r.latest_rating = "BBB"
    /\ \E b \in db.bonds : Cardinality(RatingsOfBond(b.bond_id)) = 1

\* the trades the FilterSet selects for a state and month in Q5
TradesOfGroup(state, month) ==
    {t \in db.trades :
        /\ ToCharMonth(t.trade_date) = month
        /\ DateLe(start_date, t.trade_date)
        /\ DateLe(t.trade_date, end_date)
        /\ \E b \in db.bonds, i \in db.issuers :
              /\ t.bond_id = b.bond_id
              /\ b.issuer_id = i.issuer_id
              /\ b.coupon_rate # NullNum
              /\ i.state_code = state}

\* C6: every (state, month) row Q5 presents has at least 10 trades
\* contributing to it.
C6_TenContributingTrades ==
    shown[5].kind = "table" =>
        \A r \in Shown(5) : Cardinality(TradesOfGroup(r.state, r.trade_month)) >= Q5MinCount

C6_Witness ==
    /\ shown[5].kind = "table"
    /\ \E r \in Shown(5) :
          /\ Cardinality(TradesOfGroup(r.state, r.trade_month)) = 5
          /\ Cardinality({e \in TenYr(db) : e.geo_code = r.state}) = 2

\* the bonds Q1 groups under the FilterSet, with their aggregates
SelectedTrades(bond) ==
    {t \in db.trades :
        /\ t.bond_id = bond
        /\ DateLe(start_date, t.trade_date)
        /\ DateLe(t.trade_date, end_date)}
StateSelected(state) ==
    \/ selected_states = <<>>
    \/ Range(selected_states) = Range(state_options)
    \/ state \in Range(selected_states)
GroupedBonds ==
    {b \in db.bonds :
        /\ SelectedTrades(b.bond_id) # {}
        /\ \E i \in db.issuers : i.issuer_id = b.issuer_id /\ StateSelected(i.state_code)}
TotalQuantity(bond) ==
    SumOver(SelectedTrades(bond), [t \in SelectedTrades(bond) |-> t.quantity])
AvgTradePrice(bond) ==
    RoundDiv(SumOver(SelectedTrades(bond), [t \in SelectedTrades(bond) |-> t.price]),
             Cardinality(SelectedTrades(bond)))
KeyBefore(qa, pa, qb, pb) == qa > qb \/ (qa = qb /\ pa > pb)

\* C7: the table Q1 presents is in order of total_quantity descending then
\* avg_trade_price descending, has min(row_limit, number of groups) rows,
\* one per grouped bond with that bond's aggregates, and no grouped bond
\* left out has a strictly higher key than a row presented.
C7_Q1SortedPrefix ==
    shown[1].kind \in {"table", "empty"} =>
        LET T == shown[1].table
        IN /\ \A m, n \in 1..Len(T) :
                  m < n => ~KeyBefore(T[n].total_quantity, T[n].avg_trade_price,
                                      T[m].total_quantity, T[m].avg_trade_price)
           /\ Len(T) <= row_limit
           /\ Len(T) = IF Cardinality(GroupedBonds) < row_limit
                       THEN Cardinality(GroupedBonds) ELSE row_limit
           /\ Cardinality({r.bond_id : r \in Shown(1)}) = Len(T)
           /\ \A r \in Shown(1) :
                  /\ r.bond_id \in {b.bond_id : b \in GroupedBonds}
                  /\ r.total_quantity = TotalQuantity(r.bond_id)
                  /\ r.avg_trade_price = AvgTradePrice(r.bond_id)
           /\ \A b \in GroupedBonds :
                  b.bond_id \notin {r.bond_id : r \in Shown(1)} =>
                      \A r \in Shown(1) :
                          ~KeyBefore(TotalQuantity(b.bond_id), AvgTradePrice(b.bond_id),
                                     r.total_quantity, r.avg_trade_price)

C7_Witness ==
    /\ shown[1].kind = "table"
    /\ Len(shown[1].table) = row_limit
    /\ Cardinality(GroupedBonds) > row_limit
    /\ \E n \in 1..(Len(shown[1].table) - 1) :
          /\ shown[1].table[n].total_quantity = shown[1].table[n + 1].total_quantity
          /\ shown[1].table[n].avg_trade_price > shown[1].table[n + 1].avg_trade_price

\* C11: two executions of the same Q3 text over the same rating rows
\* return the same rows: the same first_rating and latest_rating for each
\* bond, and the same bonds reported as migrated.
C11_SameRatingsEveryEvaluation ==
    [][(/\ last'.n = last.n + 1
        /\ TextKind(last.text) = 3
        /\ last'.text = last.text
        /\ last.outcome = "rows"
        /\ last'.outcome = "rows")
           => Range(last'.table) = Range(last.table)]_vars

C11_Witness ==
    /\ TextKind(last.text) = 3
    /\ last.outcome = "rows"
    /\ last.executed
    /\ last.obj >= 2
    /\ clock >= RunQueryTtl
    /\ Cardinality(EarliestCodes(1)) = 2
    /\ last.table = <<>>

\* C12: every row of the frame load_visual_data returns has a maturity
\* date and lies 0 to 14610 days (0 to 40 years of 365.25 days) before
\* it; the frame holds a row for every trade whose bond is known to lie in
\* that range, and none for any other trade.
C12_TimeToMaturityInRange ==
    (viz.valid \/ viz_cache.valid) =>
        \A frame \in {viz.df, viz_cache.df} :
            /\ \A r \in frame :
                   /\ r.maturity_date # NoDate
                   /\ r.ttm_days = DaysBetween(r.trade_date, r.maturity_date)
                   /\ 0 <= r.ttm_days
                   /\ r.ttm_days <= 14610
                   /\ 4 * r.ttm_days <= MaxMaturityYears * 1461
            /\ (frame # {}) =>
                   \A t \in db.trades :
                       (t.trade_id \in {r.trade_id : r \in frame}) <=>
                           \E b \in db.bonds :
                               /\ b.bond_id = t.bond_id
                               /\ b.maturity_date # NoDate
                               /\ DateLe(t.trade_date, b.maturity_date)
                               /\ DaysBetween(t.trade_date, b.maturity_date) <= 14610

C12_Witness ==
    /\ pc = "done"
    /\ session = "None"
    /\ \E r \in viz.df : r.ttm_days = 14610 /\ r.maturity_date = Day(2063, 1, 20)
    /\ \E t \in db.trades : t.trade_id \notin {r.trade_id : r \in viz.df}

\* C13: in one run of the script run_query is called only by the tab loop,
\* once for the tab it is at, with that tab's text, and executes the query
\* at most once; the tab then presents the outcome, a failure as an error
\* carrying the exception, and the loop moves on to the next tab; a tab
\* that has presented its outcome is not run again in that run.
C13_ExecutedAtMostOnce ==
    [][/\ last'.n = last.n + 1 =>
              /\ pc = "run"
              /\ last.n = qi - 1
              /\ last'.n <= NumQueries
              /\ last'.text = built[qi]
              /\ execs' \in {execs, execs + 1}
              /\ shown[qi] = NotShown
              /\ shown'[qi] = Present(last')
              /\ last'.outcome # "rows" =>
                     /\ shown'[qi].kind = "error"
                     /\ shown'[qi].exc = last'.outcome
                     /\ shown'[qi].exc # "none"
              /\ \/ qi' = qi + 1 /\ pc' = "build"
                 \/ qi = NumQueries /\ pc' = "visual"
       /\ last'.n # last.n + 1 => (execs' = execs /\ (runs' = runs => last' = last))
       /\ \A k \in 1..NumQueries :
              (shown[k] # NotShown /\ runs' = runs) => shown'[k] = shown[k]]_vars

C13_Witness ==
    /\ pc = "done"
    /\ runs = MaxRuns
    /\ rejects = {2, 5}
    /\ last.n = NumQueries
    /\ shown[2].kind = "error"
    /\ shown[2].exc = "QueryExecutionFailed"
    /\ shown[3].kind = "table"
    /\ execs = 2 * NumQueries

\* C14: with a live session, whichever of the five queries the data source
\* rejects, the tabs are gone through in the order Q1 to Q5, and at the
\* end of the run every query has been built from the FilterSet, every
\* rejected query presents an error, and every other query presents a
\* table its execution can return, or the no-rows notice when that table
\* is empty.
C14_FailureDoesNotStopOthers ==
    session = "Session" =>
        /\ pc \in {"build", "run"} =>
               \A k \in 1..NumQueries :
                   /\ k < qi => (built[k] # <<>> /\ shown[k] # NotShown)
                   /\ k > qi => (built[k] = <<>> /\ shown[k] = NotShown)
        /\ pc \in {"visual", "done"} =>
               \A k \in 1..NumQueries :
                   /\ built[k] = QUERIES(k, selected_states, start_date, end_date, row_limit,
                                         state_options)
                   /\ k \in rejects =>
                          (shown[k].kind = "error" /\ shown[k].exc = "QueryExecutionFailed")
                   /\ k \notin rejects =>
                          /\ shown[k].table \in Execute(built[k], db)
                          /\ shown[k].kind = IF shown[k].table = <<>> THEN "empty" ELSE "table"
        /\ pc \in {"visual", "done"} => (last.n = NumQueries /\ execs = NumQueries)

C14_Witness ==
    /\ pc = "done"
    /\ session = "Session"
    /\ rejects = {1, 3}
    /\ shown[1].kind = "error"
    /\ shown[2].kind = "table"
    /\ shown[3].kind = "error"
    /\ shown[4].kind = "table"
    /\ shown[5].kind = "empty"

====
